---- MODULE Spec2Model ----
(***************************************************************************)
(* Model of molecular-cross-validation:                                    *)
(*   - train_until_plateau  (molecular_cross_validation/train/__init__.py) *)
(*   - the PCA sweep, main  (molecular_cross_validation/scripts/           *)
(*                           pca_sweep.py)                                 *)
(*   - expected_sqrt        (noise2self_sc/scripts/simulate_dataset.py)    *)
(* Each of the three programs has its own specification (SpecTrain,        *)
(* SpecSweep, SpecSqrt); the variables of the other two stay at their      *)
(* initial values.                                                         *)
(***************************************************************************)
EXTENDS Integers, Sequences, FiniteSets

VARIABLES
    \* ---- train_until_plateau ----
    pc,             \* position in the epoch loop: train, eval, step, check, done
    epoch,          \* itertools.count() loop variable
    train_loss,     \* list of per-epoch training losses
    val_loss,       \* list of per-epoch validation losses
    best,           \* best validation loss seen at a cycle boundary
    cycle,          \* number of cycle boundaries seen
    starting_cycle, \* scheduler.starting_cycle after the last scheduler.step()
    min_cycles,     \* argument
    threshold,      \* argument, in units of 1/ThDen
    n_batches,      \* len(training_data)
    opt_steps,      \* number of optim.step() calls made so far
    last_grad_norm, \* gradient norm applied by the last optim.step()
    boundaries,     \* epochs (1-based positions in val_loss) that were boundaries
    \* ---- pca_sweep.main, two runs side by side (functions of the run) ----
    seed_arg,       \* args.seed, the same for both runs
    n_trials,       \* args.n_trials, the same for both runs
    umis,           \* the dataset: the observed molecule count, same for both
    max_components, \* args.max_components of each run
    sw_pc,          \* position of each run in main
    random_state,   \* state of the np.random.RandomState built at line 55
    ti,             \* trial index i (1-based)
    kj,             \* parameter index j (1-based; k_range[j] = j)
    gt_svd,         \* U, S, V of the full-data SVD (line 77)
    tr_svd,         \* U, S, V of the current trial's SVD (line 92)
    umis_X,         \* current split, training part
    umis_Y,         \* current split, held-out part
    gt0_loss,       \* array of shape (K,)
    rec_loss,       \* array of shape (n_trials, K)
    mcv_loss,       \* array of shape (n_trials, K)
    gt1_loss,       \* array of shape (n_trials, K)
    gt0_writes,     \* number of assignments to each gt0_loss[j]
    cell_writes,    \* number of assignments to each [i, j] of the three arrays
    n_splits,       \* number of split_molecules calls made by each trial
    split_pos,      \* state of the random source at each trial's split
    output,         \* the pickled results, or NoOutput
    \* ---- expected_sqrt ----
    sq_pc,          \* call, done
    mean,           \* the argument array, entries in units of 1/Scale
    sqrt_result     \* the returned array, entries in units of 1e-8

trainVars == <<pc, epoch, train_loss, val_loss, best, cycle, starting_cycle,
               min_cycles, threshold, n_batches, opt_steps, last_grad_norm,
               boundaries>>

sweepVars == <<seed_arg, n_trials, umis, max_components, sw_pc, random_state,
               ti, kj, gt_svd, tr_svd, umis_X, umis_Y, gt0_loss, rec_loss,
               mcv_loss, gt1_loss, gt0_writes, cell_writes, n_splits,
               split_pos, output>>

sqrtVars == <<sq_pc, mean, sqrt_result>>

vars == <<trainVars, sweepVars, sqrtVars>>

\* ------------------------------------------------------------------------
\* Bounds and input domains
\* ------------------------------------------------------------------------
MaxEpochs == 3
MaxMinCycles == 2
MaxBatches == 2

\* np.inf, carried as a sentinel above every finite loss of the model
Inf == 1000
\* thresholds are multiples of 1/ThDen: 0 <= threshold/ThDen < 1
ThDen == 4
Thresholds == {0, 3}
ValLosses == {-2, -1, 0, 1, Inf}
\* the loop never reads a training loss: one value stands for all
TrainLosses == {1}
\* gradient norms before clipping, below and above clip_norm
GradNorms == {50, 150}
CLIP_NORM == 100

\* expected_sqrt works on reals: the model carries them as integers in units
\* of 1/Scale, rounding every product and quotient to the nearest unit
Scale == 1000
\* the argument's grid is too coarse for the 1e-8 of line 71: the shifted
\* mean and the result are carried in units of 1e-8, UnitsPerGrid of them to
\* one unit of 1/Scale, so that mean + 1e-8 stays on the argument's side of 4
UnitsPerGrid == 100000
\* the 1e-8 added to mean at line 71, in units of 1e-8
Eps == 1
MaxLen == 2
\* entries of the argument, in units of 1/Scale: 0, 0.001, 0.5, 1, 2.5,
\* 3.999, 4, 4.001, 5, 6
Means == {0, 1, 500, 1000, 2500, 3999, 4000, 4001, 5000, 6000}
\* range(15) at line 72
N_TERMS == 15

MaxTrials == 2
MaxComponents == 2
MaxUmis == 2
Runs == {1, 2}
SeedArgs == {0, 7, 12}
\* the pseudo-random stream is a linear congruential generator modulo RngMod
RngMod == 16
\* umis.shape[1]: the dataset of the model is one cell by one gene, its only
\* entry the molecule count umis
NFeatures == 1
\* randomized_svd is called without n_oversamples: sklearn's default
N_OVERSAMPLES == 10
\* values the process-wide numpy generator, never seeded by main, can hold
\* when sklearn falls back to it; 0 is also sklearn's fixed default seed
GlobalEntropy == {0, 1}

\* ------------------------------------------------------------------------
\* The programs before they are started
\* ------------------------------------------------------------------------

\* np.empty: a cell that was never assigned
Uninit == <<"uninit">>
NoOutput == <<"none">>
NoSvd == <<"none">>

TrainIdle ==
    /\ pc = "idle"
    /\ epoch = 0
    /\ train_loss = <<>>
    /\ val_loss = <<>>
    /\ best = Inf
    /\ cycle = 0
    /\ starting_cycle = FALSE
    /\ min_cycles = 0
    /\ threshold = 0
    /\ n_batches = 1
    /\ opt_steps = 0
    /\ last_grad_norm = 0
    /\ boundaries = <<>>

SweepIdle ==
    /\ seed_arg = 0
    /\ n_trials = 0
    /\ umis = 0
    /\ max_components = [r \in Runs |-> 1]
    /\ sw_pc = [r \in Runs |-> "idle"]
    /\ random_state = [r \in Runs |-> 0]
    /\ ti = [r \in Runs |-> 1]
    /\ kj = [r \in Runs |-> 1]
    /\ gt_svd = [r \in Runs |-> NoSvd]
    /\ tr_svd = [r \in Runs |-> NoSvd]
    /\ umis_X = [r \in Runs |-> 0]
    /\ umis_Y = [r \in Runs |-> 0]
    /\ gt0_loss = [r \in Runs |-> <<>>]
    /\ rec_loss = [r \in Runs |-> <<>>]
    /\ mcv_loss = [r \in Runs |-> <<>>]
    /\ gt1_loss = [r \in Runs |-> <<>>]
    /\ gt0_writes = [r \in Runs |-> <<>>]
    /\ cell_writes = [r \in Runs |-> <<>>]
    /\ n_splits = [r \in Runs |-> <<>>]
    /\ split_pos = [r \in Runs |-> <<>>]
    /\ output = [r \in Runs |-> NoOutput]

SqrtIdle ==
    /\ sq_pc = "idle"
    /\ mean = <<>>
    /\ sqrt_result = <<>>

\* ------------------------------------------------------------------------
\* train_until_plateau
\* ------------------------------------------------------------------------

\* faulty variant: the improvement comparison made non-strict
LessOrEqualScaled(a, b, num) ==
    IF a = Inf THEN FALSE
    ELSE IF b = Inf THEN TRUE
    ELSE a * ThDen <= b * num

\* x * (num/ThDen) compared without division: a < b * num / ThDen,
\* where b may be +inf (inf * positive factor = inf) and a may be +inf.
LessThanScaled(a, b, num) ==
    IF a = Inf THEN FALSE
    ELSE IF b = Inf THEN TRUE
    ELSE a * ThDen < b * num

\* line 190: 0 <= val_loss[-1] < best * rel_epsilon, rel_epsilon = 1 - threshold
RelImproves(val, b, th) == 0 <= val /\ LessThanScaled(val, b, ThDen - th)

\* faulty variant: the negative branch scaled by rel_epsilon instead of neg_epsilon
NegImprovesRel(val, b, th) == 0 > val /\ LessThanScaled(val, b, ThDen - th)

\* line 192: 0 > val_loss[-1] and val_loss[-1] < best * neg_epsilon
NegImproves(val, b, th) == 0 > val /\ LessThanScaled(val, b, ThDen + th)

\* faulty variant: the minimum number of cycles tested strictly
PlateauStrict(cyc, minc) == cyc > minc

\* line 194: elif cycle >= min_cycles: break
Plateau(cyc, minc) == cyc >= minc

\* clip_grad_norm_(model.parameters(), clip_norm): the norm after clipping
ClipGradNorm(g, clip) == IF g > clip THEN clip ELSE g

LastVal == val_loss[Len(val_loss)]

TrainStart ==
    /\ pc = "train"
    /\ epoch = 0
    /\ train_loss = <<>>
    /\ val_loss = <<>>
    /\ best = Inf
    /\ cycle = 0
    /\ starting_cycle = FALSE
    /\ min_cycles \in 0..MaxMinCycles
    /\ threshold \in Thresholds
    /\ n_batches \in 1..MaxBatches
    /\ opt_steps = 0
    /\ last_grad_norm = 0
    /\ boundaries = <<>>

InitTrain == TrainStart /\ SweepIdle /\ SqrtIdle

\* lines 157-169: one pass over the training data, one optim.step() per batch
TrainEpoch ==
    /\ pc = "train"
    /\ epoch < MaxEpochs
    /\ \E l \in TrainLosses, g \in GradNorms :
        /\ train_loss' = Append(train_loss, l)
        /\ last_grad_norm' = ClipGradNorm(g, CLIP_NORM)
    /\ opt_steps' = opt_steps + n_batches
    /\ pc' = "eval"
    /\ UNCHANGED <<epoch, val_loss, best, cycle, starting_cycle, min_cycles,
                   threshold, n_batches, boundaries>>
    /\ UNCHANGED <<sweepVars, sqrtVars>>

\* faulty variant: the validation pass also steps the optimizer
EvaluateEpochStepping ==
    /\ pc = "eval"
    /\ \E l \in ValLosses : val_loss' = Append(val_loss, l)
    /\ opt_steps' = opt_steps + 1
    /\ pc' = "step"
    /\ UNCHANGED <<epoch, train_loss, best, cycle, starting_cycle, min_cycles,
                   threshold, n_batches, last_grad_norm, boundaries>>
    /\ UNCHANGED <<sweepVars, sqrtVars>>

\* lines 171-180: one pass over the validation data, loss only
EvaluateEpoch ==
    /\ pc = "eval"
    /\ \E l \in ValLosses : val_loss' = Append(val_loss, l)
    /\ pc' = "step"
    /\ UNCHANGED <<epoch, train_loss, best, cycle, starting_cycle, min_cycles,
                   threshold, n_batches, opt_steps, last_grad_norm, boundaries>>
    /\ UNCHANGED <<sweepVars, sqrtVars>>

\* line 182: scheduler.step(); CosineWithRestarts decides whether this epoch
\* starts a new cosine period
SchedulerStep ==
    /\ pc = "step"
    /\ starting_cycle' \in BOOLEAN
    /\ pc' = "check"
    /\ UNCHANGED <<epoch, train_loss, val_loss, best, cycle, min_cycles,
                   threshold, n_batches, opt_steps, last_grad_norm, boundaries>>
    /\ UNCHANGED <<sweepVars, sqrtVars>>

\* faulty variant: the loop bounded by a number of epochs
NoBoundaryCapped ==
    /\ pc = "check"
    /\ ~starting_cycle
    /\ IF epoch + 1 >= 2
         THEN pc' = "done" /\ UNCHANGED epoch
         ELSE pc' = "train" /\ epoch' = epoch + 1
    /\ UNCHANGED <<train_loss, val_loss, best, cycle, starting_cycle,
                   min_cycles, threshold, n_batches, opt_steps,
                   last_grad_norm, boundaries>>
    /\ UNCHANGED <<sweepVars, sqrtVars>>

\* lines 183-195, no boundary: next iteration of the loop
NoBoundary ==
    /\ pc = "check"
    /\ ~starting_cycle
    /\ pc' = "train"
    /\ epoch' = epoch + 1
    /\ UNCHANGED <<train_loss, val_loss, best, cycle, starting_cycle,
                   min_cycles, threshold, n_batches, opt_steps,
                   last_grad_norm, boundaries>>
    /\ UNCHANGED <<sweepVars, sqrtVars>>

\* lines 183-195, boundary: count the cycle, update best or break
CycleBoundary ==
    /\ pc = "check"
    /\ starting_cycle
    /\ cycle' = cycle + 1
    /\ boundaries' = Append(boundaries, Len(val_loss))
    /\ IF RelImproves(LastVal, best, threshold)
         THEN /\ best' = LastVal
              /\ pc' = "train"
              /\ epoch' = epoch + 1
         ELSE IF NegImproves(LastVal, best, threshold)
         THEN /\ best' = LastVal
              /\ pc' = "train"
              /\ epoch' = epoch + 1
         ELSE IF Plateau(cycle', min_cycles)
         THEN /\ pc' = "done"
              /\ UNCHANGED <<best, epoch>>
         ELSE /\ pc' = "train"
              /\ epoch' = epoch + 1
              /\ UNCHANGED best
    /\ UNCHANGED <<train_loss, val_loss, starting_cycle, min_cycles,
                   threshold, n_batches, opt_steps, last_grad_norm>>
    /\ UNCHANGED <<sweepVars, sqrtVars>>

NextTrain ==
    \/ TrainEpoch
    \/ EvaluateEpoch
    \/ SchedulerStep
    \/ NoBoundary
    \/ CycleBoundary

SpecTrain == InitTrain /\ [][NextTrain]_vars

\* ------------------------------------------------------------------------
\* pca_sweep.main
\* ------------------------------------------------------------------------

\* sum(map(ord, str(n))) for n >= 0: ord("0") = 48
RECURSIVE OrdSumDigits(_)
OrdSumDigits(n) ==
    IF n < 10 THEN 48 + n ELSE OrdSumDigits(n \div 10) + 48 + (n % 10)

\* line 54: seed = sum(map(ord, f"biohub_{args.seed}"));
\* the characters of "biohub_" sum to 98+105+111+104+117+98+95
Seed(n) == (98 + 105 + 111 + 104 + 117 + 98 + 95) + OrdSumDigits(n)

\* line 55: np.random.RandomState(seed), the state of the fresh generator
RandomState(seed) == seed % RngMod

\* one draw from the generator: the next state
NextDraw(s) == (5 * s + 3) % RngMod

\* the state after n draws
RECURSIVE Advance(_, _)
Advance(s, n) == IF n = 0 THEN s ELSE Advance(NextDraw(s), n - 1)

\* number of draws randomized_svd(M, n_components=k, random_state) takes from
\* the generator it is given: sklearn fills one Gaussian matrix of shape
\* (M.shape[1], k + n_oversamples) and draws nothing else
SvdDraws(k) == NFeatures * (k + N_OVERSAMPLES)

\* number of draws ut.split_molecules takes from the generator it is given:
\* every molecule is assigned to a partition by a draw of its own
SplitDraws(n) == n

\* randomized_svd(M, n_components, random_state): the factorisation is a
\* function of the matrix, the number of components and the random draws
RandomizedSvd(m, k, rand) == <<"svd", m, k, rand>>

\* U[:, :k].dot(np.diag(S[:k])).dot(V[:k, :]): the rank-k reconstruction
PcaX(svd, k) == <<"pca", svd, k>>

\* ut.convert_expectations(pca_X, data_split, data_split_complement)
ConvertExpectations(x) == <<"conv", x>>

\* sklearn.metrics.mean_squared_error(a, b)
MeanSquaredError(a, b) == <<"mse", a, b>>

\* np.sqrt applied to a count matrix
Sqrt(m) == <<"sqrt", m>>

\* a molecule goes to umis_X when the draw falls below data_split (0.9)
InX(s) == s < (9 * RngMod) \div 10

\* ut.split_molecules: binomial thinning of n molecules, one draw each,
\* starting from generator state s; the number that go to umis_X
RECURSIVE Thin(_, _)
Thin(n, s) ==
    IF n = 0 THEN 0
    ELSE (IF InX(NextDraw(s)) THEN 1 ELSE 0) + Thin(n - 1, NextDraw(s))

\* an array of shape (n,) / (m, n) from np.empty
EmptyVector(n) == [j \in 1..n |-> Uninit]
EmptyMatrix(m, n) == [i \in 1..m |-> [j \in 1..n |-> Uninit]]
ZeroVector(n) == [j \in 1..n |-> 0]
ZeroMatrix(m, n) == [i \in 1..m |-> [j \in 1..n |-> 0]]

\* lines 43-74: both runs are started with the same seed and dataset
InitSweep ==
    /\ seed_arg \in SeedArgs
    /\ n_trials \in 0..MaxTrials
    /\ umis \in 1..MaxUmis
    /\ max_components \in [Runs -> 1..MaxComponents]
    /\ sw_pc = [r \in Runs |-> "gt_svd"]
    /\ random_state = [r \in Runs |-> RandomState(Seed(seed_arg))]
    /\ ti = [r \in Runs |-> 1]
    /\ kj = [r \in Runs |-> 1]
    /\ gt_svd = [r \in Runs |-> NoSvd]
    /\ tr_svd = [r \in Runs |-> NoSvd]
    /\ umis_X = [r \in Runs |-> 0]
    /\ umis_Y = [r \in Runs |-> 0]
    /\ gt0_loss = [r \in Runs |-> EmptyVector(max_components[r])]
    /\ rec_loss = [r \in Runs |-> EmptyMatrix(n_trials, max_components[r])]
    /\ mcv_loss = [r \in Runs |-> EmptyMatrix(n_trials, max_components[r])]
    /\ gt1_loss = [r \in Runs |-> EmptyMatrix(n_trials, max_components[r])]
    /\ gt0_writes = [r \in Runs |-> ZeroVector(max_components[r])]
    /\ cell_writes = [r \in Runs |-> ZeroMatrix(n_trials, max_components[r])]
    /\ n_splits = [r \in Runs |-> ZeroVector(n_trials)]
    /\ split_pos = [r \in Runs |-> ZeroVector(n_trials)]
    /\ output = [r \in Runs |-> NoOutput]
    /\ TrainIdle
    /\ SqrtIdle

\* faulty variant: the trial loop stops one trial short
AfterTrialsShort(i, n) == IF i < n THEN "split" ELSE "write"

\* pc after a pass over k_range ended: the next trial, or the results
AfterTrials(i, n) == IF i <= n THEN "split" ELSE "write"

\* lines 77-79: the full-data SVD, drawing from random_state
GtSvd(r) ==
    /\ sw_pc[r] = "gt_svd"
    /\ gt_svd' = [gt_svd EXCEPT ![r] =
          RandomizedSvd(Sqrt(umis), max_components[r], random_state[r])]
    /\ random_state' = [random_state EXCEPT ![r] =
          Advance(random_state[r], SvdDraws(max_components[r]))]
    /\ kj' = [kj EXCEPT ![r] = 1]
    /\ sw_pc' = [sw_pc EXCEPT ![r] = "gt_loss"]
    /\ UNCHANGED <<seed_arg, n_trials, umis, max_components, ti, tr_svd,
                   umis_X, umis_Y, gt0_loss, rec_loss, mcv_loss, gt1_loss,
                   gt0_writes, cell_writes, n_splits, split_pos, output>>
    /\ UNCHANGED <<trainVars, sqrtVars>>

\* lines 81-83: one iteration of the ground-truth loop
GtLoss(r) ==
    /\ sw_pc[r] = "gt_loss"
    /\ LET j == kj[r] IN
        /\ gt0_loss' = [gt0_loss EXCEPT ![r][j] =
              MeanSquaredError("exp_means", PcaX(gt_svd[r], j))]
        /\ gt0_writes' = [gt0_writes EXCEPT ![r][j] = @ + 1]
        /\ IF j < max_components[r]
             THEN /\ kj' = [kj EXCEPT ![r] = j + 1]
                  /\ UNCHANGED <<sw_pc, ti>>
             ELSE /\ kj' = [kj EXCEPT ![r] = 1]
                  /\ ti' = [ti EXCEPT ![r] = 1]
                  /\ sw_pc' = [sw_pc EXCEPT ![r] = AfterTrials(1, n_trials)]
    /\ UNCHANGED <<seed_arg, n_trials, umis, max_components, random_state,
                   gt_svd, tr_svd, umis_X, umis_Y, rec_loss, mcv_loss,
                   gt1_loss, cell_writes, n_splits, split_pos, output>>
    /\ UNCHANGED <<trainVars, sqrtVars>>

\* lines 87-90: the trial's split, drawing from random_state
SplitMolecules(r) ==
    /\ sw_pc[r] = "split"
    /\ LET i == ti[r]
           x == Thin(umis, random_state[r])
       IN
        /\ umis_X' = [umis_X EXCEPT ![r] = x]
        /\ umis_Y' = [umis_Y EXCEPT ![r] = umis - x]
        /\ n_splits' = [n_splits EXCEPT ![r][i] = @ + 1]
        /\ split_pos' = [split_pos EXCEPT ![r][i] = random_state[r]]
    /\ random_state' = [random_state EXCEPT ![r] =
          Advance(random_state[r], SplitDraws(umis))]
    /\ sw_pc' = [sw_pc EXCEPT ![r] = "svd"]
    /\ UNCHANGED <<seed_arg, n_trials, umis, max_components, ti, kj, gt_svd,
                   tr_svd, gt0_loss, rec_loss, mcv_loss, gt1_loss,
                   gt0_writes, cell_writes, output>>
    /\ UNCHANGED <<trainVars, sqrtVars>>

\* lines 92-93: the trial's SVD, called without random_state: sklearn uses
\* its default, a fixed seed or the process-wide generator
TrialSvd(r) ==
    /\ sw_pc[r] = "svd"
    /\ \E g \in GlobalEntropy :
          tr_svd' = [tr_svd EXCEPT ![r] =
              RandomizedSvd(Sqrt(umis_X[r]), max_components[r], g)]
    /\ kj' = [kj EXCEPT ![r] = 1]
    /\ sw_pc' = [sw_pc EXCEPT ![r] = "loss"]
    /\ UNCHANGED <<seed_arg, n_trials, umis, max_components, random_state,
                   ti, gt_svd, umis_X, umis_Y, gt0_loss, rec_loss, mcv_loss,
                   gt1_loss, gt0_writes, cell_writes, n_splits, split_pos,
                   output>>
    /\ UNCHANGED <<trainVars, sqrtVars>>

\* lines 95-101: one iteration of the trial's loop over k_range
RecordLosses(r) ==
    /\ sw_pc[r] = "loss"
    /\ LET i == ti[r]
           j == kj[r]
           pca_X == PcaX(tr_svd[r], j)
           conv_exp == ConvertExpectations(pca_X)
       IN
        /\ rec_loss' = [rec_loss EXCEPT ![r][i][j] =
              MeanSquaredError(Sqrt(umis_X[r]), pca_X)]
        /\ mcv_loss' = [mcv_loss EXCEPT ![r][i][j] =
              MeanSquaredError(Sqrt(umis_Y[r]), conv_exp)]
        /\ gt1_loss' = [gt1_loss EXCEPT ![r][i][j] =
              MeanSquaredError("exp_split_means", conv_exp)]
        /\ cell_writes' = [cell_writes EXCEPT ![r][i][j] = @ + 1]
        /\ IF j < max_components[r]
             THEN /\ kj' = [kj EXCEPT ![r] = j + 1]
                  /\ UNCHANGED <<sw_pc, ti>>
             ELSE /\ kj' = [kj EXCEPT ![r] = 1]
                  /\ ti' = [ti EXCEPT ![r] = i + 1]
                  /\ sw_pc' = [sw_pc EXCEPT ![r] = AfterTrials(i + 1, n_trials)]
    /\ UNCHANGED <<seed_arg, n_trials, umis, max_components, random_state,
                   gt_svd, tr_svd, umis_X, umis_Y, gt0_loss, gt0_writes,
                   n_splits, split_pos, output>>
    /\ UNCHANGED <<trainVars, sqrtVars>>

\* lines 103-116: the results are pickled
WriteResults(r) ==
    /\ sw_pc[r] = "write"
    /\ output' = [output EXCEPT ![r] =
          [param_range |-> [j \in 1..max_components[r] |-> j],
           rec_loss |-> rec_loss[r],
           mcv_loss |-> mcv_loss[r],
           gt0_loss |-> gt0_loss[r],
           gt1_loss |-> gt1_loss[r]]]
    /\ sw_pc' = [sw_pc EXCEPT ![r] = "done"]
    /\ UNCHANGED <<seed_arg, n_trials, umis, max_components, random_state,
                   ti, kj, gt_svd, tr_svd, umis_X, umis_Y, gt0_loss, rec_loss,
                   mcv_loss, gt1_loss, gt0_writes, cell_writes, n_splits,
                   split_pos>>
    /\ UNCHANGED <<trainVars, sqrtVars>>

NextSweep ==
    \E r \in Runs :
        \/ GtSvd(r)
        \/ GtLoss(r)
        \/ SplitMolecules(r)
        \/ TrialSvd(r)
        \/ RecordLosses(r)
        \/ WriteResults(r)

SpecSweep == InitSweep /\ [][NextSweep]_vars

\* ------------------------------------------------------------------------
\* expected_sqrt
\* ------------------------------------------------------------------------

\* a / b rounded to the nearest integer, for a >= 0 and b > 0
RoundDiv(a, b) == (a + b \div 2) \div b

\* product and quotient of two numbers carried in units of 1/Scale
FMul(a, b) == RoundDiv(a * b, Scale)
FDiv(a, b) == RoundDiv(a * Scale, b)

\* the largest r in lo..hi with r * r <= n
RECURSIVE ISqrtSearch(_, _, _)
ISqrtSearch(n, lo, hi) ==
    IF lo = hi THEN lo
    ELSE LET mid == (lo + hi + 1) \div 2 IN
         IF mid * mid <= n THEN ISqrtSearch(n, mid, hi)
         ELSE ISqrtSearch(n, lo, mid - 1)

\* the integer nearest to the square root of n, 0 <= n
ISqrt(n) ==
    LET r == ISqrtSearch(n, 0, 46340) IN
    IF n - r * r > r THEN r + 1 ELSE r

\* np.sqrt(x)
FSqrt(x) == ISqrt(x * Scale)

\* x ** (-0.5) and x ** (-1.5) for x > 0
PowMinusHalf(x) == FDiv(Scale, FSqrt(x))
PowMinusThreeHalves(x) == FDiv(PowMinusHalf(x), x)

\* mean ** (k + 1) / math.factorial(k + 1) from t = mean ** k / k!
NextTerm(t, m, k) == RoundDiv(FMul(t, m), k + 1)

\* lines 72-73: the loop over k in range(n), from iteration k on, with
\* t = mean ** k / k! and acc the sum so far;
\* acc += mean ** k / math.factorial(k) * np.sqrt(k)
RECURSIVE TaylorLoop(_, _, _, _, _)
TaylorLoop(m, k, n, t, acc) ==
    IF k = n THEN acc
    ELSE TaylorLoop(m, k + 1, n, NextTerm(t, m, k),
                    acc + FMul(t, FSqrt(k * Scale)))

TaylorSum(m, n) == TaylorLoop(m, 0, n, Scale, 0)

\* np.exp(m) for m >= 0, by the first n terms of its series
RECURSIVE ExpLoop(_, _, _, _, _)
ExpLoop(m, k, n, t, acc) ==
    IF k = n THEN acc
    ELSE ExpLoop(m, k + 1, n, NextTerm(t, m, k), acc + t)

Exp(m) == ExpLoop(m, 0, 24, Scale, 0)

\* lines 72-75 on the grid: the sum times np.exp(-mean), in units of 1/Scale
TaylorAround0OnGrid(g) == RoundDiv(TaylorSum(g, N_TERMS) * Scale, Exp(g))

\* lines 76-78 on the grid: np.sqrt(mean) - np.sqrt(mean) ** (-0.5) / 8
\*                                         + np.sqrt(mean) ** (-1.5) / 16
TaylorAroundMeanOnGrid(g) ==
    FSqrt(g) - RoundDiv(PowMinusHalf(FSqrt(g)), 8)
             + RoundDiv(PowMinusThreeHalves(FSqrt(g)), 16)

\* a number in units of 1e-8 rounded to the grid of 1/Scale
ToGrid(x) == RoundDiv(x, UnitsPerGrid)

\* lines 72-75 for a shifted mean x in units of 1e-8, result in units of
\* 1e-8. Below half a grid unit (x = 1e-8, the shifted zero) the sum is its
\* k = 1 term, x * sqrt(1) * exp(-x) = x up to x * x; the k = 0 term is 0.
TruncatedTaylorAround0(x) ==
    IF ToGrid(x) = 0 THEN x ELSE TaylorAround0OnGrid(ToGrid(x)) * UnitsPerGrid

\* lines 76-78 for a shifted mean x >= 4, result in units of 1e-8
TruncatedTaylorAroundMean(x) == TaylorAroundMeanOnGrid(ToGrid(x)) * UnitsPerGrid

\* a boolean array entry used as a factor
AsFactor(b) == IF b THEN 1 ELSE 0

\* line 71: mean = mean + 1e-8, in units of 1e-8
Shifted(m) == m * UnitsPerGrid + Eps

\* faulty variant: the zero mask taken after the epsilon was added
NonzerosAfterEps(m) == Shifted(m) # 0

\* line 70: nonzeros = mean != 0, on the argument as passed
Nonzeros(m) == m # 0

\* lines 80-83: truncated_taylor_around_0 * (mean < 4)
\*              + truncated_taylor_around_mean * (mean >= 4) on the shifted
\* mean x. Both summands are finite for every mean >= 0 of the model, so the
\* one with factor 0 adds exactly 0 and only the other is evaluated.
SelectedBranch(x) ==
    IF x < 4 * Scale * UnitsPerGrid
      THEN TruncatedTaylorAround0(x)
      ELSE TruncatedTaylorAroundMean(x)

\* lines 69-83 for one entry m of the argument
ExpectedSqrtEntry(m) == AsFactor(Nonzeros(m)) * SelectedBranch(Shifted(m))

InitSqrt ==
    /\ sq_pc = "call"
    /\ \E n \in 1..MaxLen : mean \in [1..n -> Means]
    /\ sqrt_result = <<>>
    /\ TrainIdle
    /\ SweepIdle

\* lines 65-83
ExpectedSqrt ==
    /\ sq_pc = "call"
    /\ sqrt_result' = [e \in 1..Len(mean) |-> ExpectedSqrtEntry(mean[e])]
    /\ sq_pc' = "done"
    /\ UNCHANGED <<mean, trainVars, sweepVars>>

NextSqrt == ExpectedSqrt

SpecSqrt == InitSqrt /\ [][NextSqrt]_vars

\* ------------------------------------------------------------------------
\* Properties of train_until_plateau
\* ------------------------------------------------------------------------

\* validation losses recorded at the cycle boundaries, in order
BoundaryVal(i) == val_loss[boundaries[i]]

\* every boundary after the first min_cycles boundaries recorded the same loss
ConstantAfterMinCycles ==
    \A i, j \in (min_cycles + 1)..Len(boundaries) : BoundaryVal(i) = BoundaryVal(j)

\* C1 (as stated): with a validation loss that is constant at the boundaries
\* after the first min_cycles, train_until_plateau has returned by boundary
\* number min_cycles + 1.
C1_ReturnsByMinCyclesPlusOne ==
    (pc = "done" /\ ConstantAfterMinCycles) => cycle <= min_cycles + 1

\* C1 (amended): with a validation loss that is constant at the boundaries
\* after the first min_cycles, train_until_plateau returns no later than
\* boundary number min_cycles + 2: the loop is never still running, nor
\* returning later, once min_cycles + 2 such boundaries were seen.
C1_ReturnsByMinCyclesPlusTwo ==
    (ConstantAfterMinCycles /\ cycle >= min_cycles + 2)
        => (pc = "done" /\ cycle = min_cycles + 2)

\* the return happens at boundary min_cycles + 2, after min_cycles >= 1
\* boundaries of other losses and two boundaries of one constant loss
C1_Witness ==
    /\ pc = "done"
    /\ min_cycles >= 1
    /\ cycle = min_cycles + 2
    /\ ConstantAfterMinCycles
    /\ BoundaryVal(1) # BoundaryVal(cycle)

\* the two improvement tests of the stopping rule, on the latest validation
\* loss v against best b with threshold t = threshold / ThDen
C2_RelTest ==
    /\ 0 <= LastVal
    /\ LastVal # Inf
    /\ (best = Inf \/ LastVal * ThDen < best * (ThDen - threshold))

C2_NegTest ==
    /\ LastVal < 0
    /\ (best = Inf \/ LastVal * ThDen < best * (ThDen + threshold))

\* C2: the loop leaves for CONVERGED only from the boundary check, only when
\* the scheduler reported a boundary, the incremented cycle counter is
\* >= min_cycles and both improvement tests fail; in every other case the
\* check continues training. It never returns before min_cycles boundaries.
C2_StoppingRule ==
    [][ /\ (pc # "check") => (pc' = "done" => pc = "done")
        /\ (pc = "check") =>
              (pc' = "done" <=> /\ starting_cycle
                                /\ cycle' >= min_cycles
                                /\ ~C2_RelTest
                                /\ ~C2_NegTest)
        /\ (pc = "check" /\ pc' # "done") => pc' = "train"
        /\ (pc' = "done") => (cycle' >= min_cycles /\ cycle' = Len(boundaries'))
      ]_vars

\* a return after non-boundary epochs and several boundaries
C2_Witness ==
    /\ pc = "done"
    /\ cycle >= 2
    /\ cycle = min_cycles
    /\ Len(val_loss) > cycle

\* C8: there is no epoch cap. In every execution in which, at each boundary
\* check, either the scheduler reports no boundary or the validation loss
\* passes an improvement test, CONVERGED is never reached.
C8_NoEpochCap ==
    [](pc = "check" => (~starting_cycle \/ C2_RelTest \/ C2_NegTest))
        => [](pc # "done")

\* training goes on after three boundaries that each improved on best,
\* with min_cycles = 0
C8_Witness ==
    /\ pc = "train"
    /\ min_cycles = 0
    /\ cycle >= 3
    /\ epoch >= 3

\* C9: every epoch runs one training pass (clipped at 100.0) and then one
\* validation pass; each appends one value; the validation pass takes no
\* optimizer step; the two lists have equal length, the number of epochs
\* executed, at every epoch end and on return; the value tested at a
\* boundary is the validation loss of that epoch.
C9_LossSequences ==
    /\ pc = "train" =>
          /\ Len(train_loss) = epoch
          /\ Len(val_loss) = epoch
          /\ opt_steps = epoch * n_batches
    /\ pc = "eval" =>
          /\ Len(train_loss) = epoch + 1
          /\ Len(val_loss) = epoch
          /\ opt_steps = (epoch + 1) * n_batches
    /\ pc \in {"step", "check", "done"} =>
          /\ Len(train_loss) = epoch + 1
          /\ Len(val_loss) = epoch + 1
          /\ opt_steps = (epoch + 1) * n_batches
    /\ pc = "check" => LastVal = val_loss[epoch + 1]
    /\ pc = "done" => (Len(val_loss) >= 1 /\ boundaries[cycle] = epoch + 1)
    /\ last_grad_norm <= 100

\* a return after two epochs, the last training pass having been clipped
C9_Witness ==
    /\ pc = "done"
    /\ Len(val_loss) >= 2
    /\ last_grad_norm = 100
    /\ n_batches >= 2

\* C10: best starts at +infinity, changes only at a cycle boundary and never
\* increases; with a finite validation loss at the first boundary the loop
\* does not return there, whatever min_cycles is.
C10_BestMonotone ==
    /\ [](cycle = 0 => best = Inf)
    /\ []((pc = "done" /\ BoundaryVal(1) # Inf) => cycle >= 2)
    /\ [][best' # best =>
            (pc = "check" /\ starting_cycle /\ best' < best
               /\ best' = LastVal)]_vars

\* a return at the second boundary with min_cycles = 0 and negative losses
C10_Witness ==
    /\ pc = "done"
    /\ min_cycles = 0
    /\ cycle = 2
    /\ best < 0

\* ------------------------------------------------------------------------
\* Properties of the PCA sweep
\* ------------------------------------------------------------------------

BothDone == \A r \in Runs : sw_pc[r] = "done"

\* C3: two runs with the same seed, dataset and configuration write
\* identical results.
C3_Reproducible ==
    (BothDone /\ max_components[1] = max_components[2])
        => output[1] = output[2]

SplitDone(r, i) == n_splits[r][i] >= 1

\* C4: trial i draws its split from a stream of its own derived from the
\* run seed: in two runs with the same seed and dataset the split of trial i
\* starts from the same generator state, whatever the ground-truth pass and
\* the other trials drew.
C4_OwnStreamPerTrial ==
    \A i \in 1..n_trials :
        (SplitDone(1, i) /\ SplitDone(2, i)) => split_pos[1][i] = split_pos[2][i]

Written(x) == x # Uninit

\* C5: when the results are written, param_range is 1..max_components,
\* gt0_loss has one entry per parameter, each assigned once, before any
\* split; rec_loss, mcv_loss and gt1_loss have shape n_trials x K with every
\* cell assigned exactly once; each trial splits once, before its losses.
C5_ArtifactComplete ==
    \A r \in Runs :
        LET K == max_components[r] IN
        /\ Len(gt0_loss[r]) = K
        /\ Len(rec_loss[r]) = n_trials
        /\ Len(mcv_loss[r]) = n_trials
        /\ Len(gt1_loss[r]) = n_trials
        /\ \A i \in 1..n_trials :
              /\ Len(rec_loss[r][i]) = K
              /\ Len(mcv_loss[r][i]) = K
              /\ Len(gt1_loss[r][i]) = K
              /\ n_splits[r][i] <= 1
              /\ \A j \in 1..K :
                    /\ cell_writes[r][i][j] <= 1
                    /\ cell_writes[r][i][j] = 1 =>
                          /\ n_splits[r][i] = 1
                          /\ Written(rec_loss[r][i][j])
                          /\ Written(mcv_loss[r][i][j])
                          /\ Written(gt1_loss[r][i][j])
              /\ n_splits[r][i] = 1 =>
                    \A j \in 1..K : gt0_writes[r][j] = 1 /\ Written(gt0_loss[r][j])
        /\ \A j \in 1..K : gt0_writes[r][j] <= 1
        /\ sw_pc[r] \in {"split", "svd", "loss", "write", "done"} =>
              \A j \in 1..K : gt0_writes[r][j] = 1
        /\ sw_pc[r] = "done" =>
              /\ output[r].param_range = [j \in 1..K |-> j]
              /\ output[r].gt0_loss = gt0_loss[r]
              /\ output[r].rec_loss = rec_loss[r]
              /\ output[r].mcv_loss = mcv_loss[r]
              /\ output[r].gt1_loss = gt1_loss[r]
              /\ Len(output[r].rec_loss) = n_trials
              /\ \A j \in 1..K : Written(output[r].gt0_loss[j])
              /\ \A i \in 1..n_trials :
                    /\ n_splits[r][i] = 1
                    /\ \A j \in 1..K :
                          /\ cell_writes[r][i][j] = 1
                          /\ Written(output[r].rec_loss[i][j])
                          /\ Written(output[r].mcv_loss[i][j])
                          /\ Written(output[r].gt1_loss[i][j])

\* a run wrote the results of two trials over two parameter values
C5_Witness ==
    /\ sw_pc[1] = "done"
    /\ n_trials >= 2
    /\ max_components[1] >= 2
    /\ Len(output[1].rec_loss) = n_trials

\* ------------------------------------------------------------------------
\* Properties of expected_sqrt
\* ------------------------------------------------------------------------

\* C6: an entry of the result is exactly 0 if its mean is exactly 0, and the
\* epsilon does not change which entries are masked: the entries that come
\* out 0 are those whose mean, as passed, is 0.
C6_ZeroMeanMasked ==
    sq_pc = "done" =>
        \A e \in 1..Len(mean) : (sqrt_result[e] = 0) <=> (mean[e] = 0)

\* an array with a zero entry and a positive entry went through
C6_Witness ==
    /\ sq_pc = "done"
    /\ \E e \in 1..Len(mean) : mean[e] = 0 /\ sqrt_result[e] = 0
    /\ \E e \in 1..Len(mean) : mean[e] = 1 /\ sqrt_result[e] > 0

\* the difference the rounding of the model can make, in units of 1/Scale
Tol == 3

\* a value on the grid of 1/Scale in the units of the result
InResultUnits(v) == v * UnitsPerGrid

Abs(x) == IF x < 0 THEN -x ELSE x

\* sqrt(mean) - mean^(-0.5)/8 + mean^(-1.5)/16
AsymptoticOfMean(m) ==
    FSqrt(m) - RoundDiv(PowMinusHalf(m), 8) + RoundDiv(PowMinusThreeHalves(m), 16)

\* C7: an entry with mean >= 4 is sqrt(mean) - mean^(-0.5)/8 + mean^(-1.5)/16,
\* an entry with 0 < mean < 4 is the 15-term sum times e^(-mean), both up to
\* the rounding of the model.
C7_BranchValues ==
    sq_pc = "done" =>
        \A e \in 1..Len(mean) :
            /\ mean[e] >= 4 * Scale =>
                  Abs(sqrt_result[e] - InResultUnits(AsymptoticOfMean(mean[e])))
                      <= InResultUnits(Tol)
            /\ (0 < mean[e] /\ mean[e] < 4 * Scale) =>
                  Abs(sqrt_result[e] - InResultUnits(TaylorAround0OnGrid(mean[e])))
                      <= InResultUnits(Tol)

====
